---- MODULE Spec2Model ----
(***************************************************************************)
(* malwi-box: the permission engine (engine.py), decision extraction       *)
(* (formatting.py) and the audit-hook mode strategies (hook.py,            *)
(* hooks/run_hook.py, hooks/review_hook.py, cli.py templates).             *)
(*                                                                         *)
(* Python strings are sequences of tokens (a token is a character or an    *)
(* indivisible chunk of characters), so startswith/endswith/split/lower    *)
(* are computed on the sequence as the code computes them on characters.   *)
(* Python values are tagged records: [str |-> tokens], [int |-> n],        *)
(* [none |-> TRUE], [list |-> <<values>>], [obj |-> name].                 *)
(***************************************************************************)
EXTENDS Integers, Sequences, FiniteSets, TLC

VARIABLES
    files,            \* the filesystem: resolved file path -> digest of content, or Absent
    cfgFile,          \* the config document on disk (engine.config_path)
    config,           \* BoxEngine.config, loaded at construction
    decisions,        \* BoxEngine._decisions
    session_allowed,  \* the review hook's session_allowed set
    in_hook,          \* the hook's recursion guard
    box_mode,         \* MALWI_BOX_MODE: "run", "force" or "review"
    impl,             \* which hook implementation is installed
    status,           \* "running", "prompting" or "exited"
    exit_code,        \* the status passed to os._exit, NoExit while alive
    stderr,           \* diagnostic lines written by the hook, oldest first
    pending,          \* the event the operator is being prompted for
    last,             \* the most recent hook / check_permission call and its outcome
    persisted,        \* events approved-and-persisted by earlier processes
    gen,              \* number of processes started so far on this config file
    nEvents           \* number of events delivered to the current process

vars == <<files, cfgFile, config, decisions, session_allowed, in_hook, box_mode, impl,
          status, exit_code, stderr, pending, last, persisted, gen, nEvents>>

-----------------------------------------------------------------------------
(* Python values *)

S(x) == [str |-> x]
I(n) == [int |-> n]
None == [none |-> TRUE]
L(xs) == [list |-> xs]
Obj(n) == [obj |-> n]

IsStr(v) == DOMAIN v = {"str"}
IsInt(v) == DOMAIN v = {"int"}
IsNone(v) == DOMAIN v = {"none"}
IsList(v) == DOMAIN v = {"list"}

\* bool(v)
Truthy(v) ==
    IF IsStr(v) THEN v.str # <<>>
    ELSE IF IsInt(v) THEN v.int # 0
    ELSE IF IsNone(v) THEN FALSE
    ELSE IF IsList(v) THEN v.list # <<>>
    ELSE TRUE

StartsWith(s, p) == Len(p) <= Len(s) /\ SubSeq(s, 1, Len(p)) = p
EndsWith(s, p) == Len(p) <= Len(s) /\ SubSeq(s, Len(s) - Len(p) + 1, Len(s)) = p

\* any(c in s for c in chars)
AnyCharIn(s, chars) == \E i \in 1..Len(s) : s[i] \in chars

-----------------------------------------------------------------------------
(* pathlib *)

Root == <<"/">>
ParentDir == <<"..">>
CurDir == <<".">>

RECURSIVE SplitAcc(_, _, _)
SplitAcc(s, cur, acc) ==
    LET flush == IF cur = <<>> \/ cur = CurDir THEN acc ELSE Append(acc, cur) IN
    IF s = <<>> THEN flush
    ELSE IF Head(s) = "/" THEN SplitAcc(Tail(s), <<>>, flush)
    ELSE SplitAcc(Tail(s), Append(cur, Head(s)), acc)

\* Path(s).parts: the root, then the components; "." and empty components dropped
PathOf(s) ==
    IF s # <<>> /\ Head(s) = "/" THEN <<Root>> \o SplitAcc(s, <<>>, <<>>)
    ELSE SplitAcc(s, <<>>, <<>>)

is_absolute(p) == p # <<>> /\ p[1] = Root

\* the directory tree and the symbolic links of the machine
WorkdirStr == <<"/", "w">>
Workdir == PathOf(WorkdirStr)
Symlinks == (<<Root, <<"w">>, <<"ln">>>> :> <<"/", "e">>)
Dirs == { <<Root>>, <<Root, <<"w">>>>, <<Root, <<"w">>, <<"a">>>>,
          <<Root, <<"w">>, <<"a", "b">>>>, <<Root, <<"e">>>> }

\* Path.resolve(): ".." removes the last resolved component, a symbolic link is
\* replaced by its target, a component that does not exist is kept
RECURSIVE Realpath(_, _)
Realpath(cur, rest) ==
    IF rest = <<>> THEN cur
    ELSE IF Head(rest) = ParentDir
         THEN Realpath(IF Len(cur) > 1 THEN SubSeq(cur, 1, Len(cur) - 1) ELSE cur,
                       Tail(rest))
    ELSE LET new == Append(cur, Head(rest)) IN
         IF new \in DOMAIN Symlinks
         THEN LET t == PathOf(Symlinks[new]) IN
              IF is_absolute(t) THEN Realpath(<<Root>>, Tail(t) \o Tail(rest))
              ELSE Realpath(cur, t \o Tail(rest))
         ELSE Realpath(new, Tail(rest))

\* BoxEngine._resolve_path
resolve_path(s) ==
    LET p == PathOf(s)
        q == IF is_absolute(p) THEN p ELSE Workdir \o p
    IN Realpath(<<Root>>, Tail(q))

\* Path.relative_to(dir) succeeds
relative_to(path, dir) == Len(dir) <= Len(path) /\ SubSeq(path, 1, Len(dir)) = dir

Absent == "absent"
\* a file that exists and whose read_bytes() raises OSError
ReadFails == "eacces"

\* Path.exists() of a resolved path
exists(p) == p \in Dirs \/ (p \in DOMAIN files /\ files[p] # Absent)

-----------------------------------------------------------------------------
(* engine.py: configuration *)

PYPI_HOSTS == { <<"pypi", ".", "org">>, <<"www", ".", "pypi", ".", "org">>,
                <<"files", ".", "pythonhosted", ".", "org">>,
                <<"upload", ".", "pypi", ".", "org">>,
                <<"test", ".", "pypi", ".", "org">> }

\* sysconfig.get_path("stdlib"/"purelib"/"platlib")
StdlibPaths == << S(<<"/", "py">>) >>

\* BoxEngine._default_config
default_config ==
    [ allow_file_reads |-> <<>>,
      allow_file_writes |-> <<>>,
      allow_file_changes |-> <<>>,
      allow_dir_reads |-> <<S(WorkdirStr)>> \o StdlibPaths,
      allow_dir_writes |-> <<S(WorkdirStr)>>,
      allow_dir_changes |-> <<S(WorkdirStr)>>,
      allow_env_var_reads |-> <<>>,
      allow_env_var_writes |-> <<>>,
      allow_pypi_requests |-> TRUE,
      allow_domains |-> <<>>,
      allow_system_commands |-> <<>> ]

\* the config file: absent, not parseable as JSON, or a JSON object
Missing == [missing |-> TRUE]
Garbage == [garbage |-> TRUE]
Doc(d) == [doc |-> d]
IsDoc(f) == DOMAIN f = {"doc"}
\* ... or there but not to be opened (OSError), parseable JSON that is not an
\* object (a list, a number, null), or bytes that are not UTF-8
NoAccess == [noaccess |-> TRUE]
NotObject(v) == [json |-> v]
BadBytes == [badbytes |-> TRUE]

\* no engine yet, and the exception that left __init__ without an engine
NoConfig == [noconfig |-> TRUE]
Raised == [raised |-> TRUE]

\* _load_config catches json.JSONDecodeError and OSError only: the TypeError of
\* `key not in config` / `config[key] = value` on a non-dict and the
\* UnicodeDecodeError of json.load pass through
load_raises(file) == DOMAIN file \in {{"json"}, {"badbytes"}}

\* BoxEngine._load_config
load_config(file) ==
    IF IsDoc(file)
    THEN [ k \in DOMAIN file.doc \cup DOMAIN default_config |->
             IF k \in DOMAIN file.doc THEN file.doc[k] ELSE default_config[k] ]
    ELSE IF load_raises(file) THEN Raised
    ELSE default_config

\* dict.get(key, default)
Get(d, key, default) == IF key \in DOMAIN d THEN d[key] ELSE default

\* x in list
InList(x, list) == \E i \in 1..Len(list) : list[i] = x

-----------------------------------------------------------------------------
(* engine.py: file access *)

\* BoxEngine._normalize_entry: a bare string, or a dict with "path" and "hash"
normalize_entry(entry) ==
    IF IsStr(entry) THEN [path |-> entry.str, hash |-> None]
    ELSE [path |-> IF "path" \in DOMAIN entry THEN entry.path ELSE <<>>,
          hash |-> IF "hash" \in DOMAIN entry THEN S(entry.hash) ELSE None]

Sha256Scheme == <<"sha256:">>

\* a verification that takes the text after any scheme for the digest
verify_file_hash_any_scheme(path, expected_hash) ==
    /\ exists(path) /\ path \notin Dirs /\ files[path] # ReadFails
    /\ <<files[path]>> = Tail(expected_hash)

\* BoxEngine._verify_file_hash; reading a directory raises OSError
verify_file_hash(path, expected_hash) ==
    IF ~StartsWith(expected_hash, Sha256Scheme) THEN FALSE
    ELSE IF ~exists(path) THEN FALSE
    ELSE IF path \in Dirs \/ files[path] = ReadFails THEN FALSE
    ELSE <<files[path]>> = SubSeq(expected_hash, Len(Sha256Scheme) + 1, Len(expected_hash))

\* BoxEngine._check_path_in_list: the first entry whose resolved path equals
\* the path decides
RECURSIVE check_path_in_list(_, _, _)
check_path_in_list(path, entries, check_hash) ==
    IF entries = <<>> THEN FALSE
    ELSE LET e == normalize_entry(Head(entries)) IN
         IF path = resolve_path(e.path)
         THEN IF check_hash /\ Truthy(e.hash)
              THEN verify_file_hash(path, e.hash.str)
              ELSE TRUE
         ELSE check_path_in_list(path, Tail(entries), check_hash)

\* a directory test on the text of the path: the last component of the directory
\* need only be a prefix of the path's component
check_path_in_dir_list_startswith(path, dirs) ==
    \E i \in 1..Len(dirs) :
        LET d == resolve_path(dirs[i].str) IN
        /\ Len(d) <= Len(path)
        /\ SubSeq(path, 1, Len(d) - 1) = SubSeq(d, 1, Len(d) - 1)
        /\ StartsWith(path[Len(d)], d[Len(d)])

\* BoxEngine._check_path_in_dir_list
check_path_in_dir_list(path, dirs) ==
    \E i \in 1..Len(dirs) : relative_to(path, resolve_path(dirs[i].str))

\* BoxEngine._check_read_permission
check_read_permission(cfg, path) ==
    \/ check_path_in_list(path, Get(cfg, "allow_file_reads", <<>>), FALSE)
    \/ check_path_in_dir_list(path, Get(cfg, "allow_dir_reads", <<>>))

\* a write check that consults creation and modification rules alike
check_write_permission_any(cfg, path, is_new_file) ==
    \/ check_path_in_list(path, Get(cfg, "allow_file_writes", <<>>), FALSE)
    \/ check_path_in_dir_list(path, Get(cfg, "allow_dir_writes", <<>>))
    \/ check_path_in_list(path, Get(cfg, "allow_file_changes", <<>>), TRUE)
    \/ check_path_in_dir_list(path, Get(cfg, "allow_dir_changes", <<>>))

\* BoxEngine._check_write_permission
check_write_permission(cfg, path, is_new_file) ==
    IF is_new_file
    THEN \/ check_path_in_list(path, Get(cfg, "allow_file_writes", <<>>), FALSE)
         \/ check_path_in_dir_list(path, Get(cfg, "allow_dir_writes", <<>>))
    ELSE \/ check_path_in_list(path, Get(cfg, "allow_file_changes", <<>>), TRUE)
         \/ check_path_in_dir_list(path, Get(cfg, "allow_dir_changes", <<>>))

\* str(v)
StrOf(v) ==
    IF IsStr(v) THEN v.str
    ELSE IF IsNone(v) THEN <<"N", "o", "n", "e">>
    ELSE IF IsInt(v) THEN <<ToString(v.int)>>
    ELSE <<"<object>">>

WriteModeChars == {"w", "a", "x", "+"}

\* is_write of BoxEngine._check_file_access
is_write_mode(mode) == AnyCharIn(StrOf(mode), WriteModeChars)

\* BoxEngine._check_file_access
check_file_access(cfg, args) ==
    IF args = <<>> THEN TRUE
    ELSE LET path_arg == args[1]
             mode == IF Len(args) > 1 THEN args[2] ELSE S(<<"r">>)
         IN IF ~IsStr(path_arg) THEN TRUE
            ELSE LET resolved == resolve_path(path_arg.str) IN
                 IF is_write_mode(mode)
                 THEN check_write_permission(cfg, resolved, ~exists(resolved))
                 ELSE check_read_permission(cfg, resolved)

-----------------------------------------------------------------------------
(* engine.py: environment variables, commands, domains *)

\* BoxEngine._check_env_write
check_env_write(cfg, args) ==
    IF args = <<>> THEN TRUE
    ELSE InList(args[1], Get(cfg, "allow_env_var_writes", <<>>))

\* an env-read check that looks the variable up in the list
check_env_read_by_name(cfg, args) ==
    LET allowed == Get(cfg, "allow_env_var_reads", <<>>) IN
    allowed = <<>> \/ (args # <<>> /\ InList(args[1], allowed))

\* BoxEngine._check_env_read
check_env_read(cfg, args) == Get(cfg, "allow_env_var_reads", <<>>) = <<>>

\* " ".join(strs)
RECURSIVE JoinSp(_)
JoinSp(strs) ==
    IF strs = <<>> THEN <<>>
    ELSE IF Len(strs) = 1 THEN strs[1]
    ELSE strs[1] \o <<" ">> \o JoinSp(Tail(strs))

\* index of the first "]" that closes a bracket expression opened before
\* position i of pat (a "]" right after the opening counts as a member), or 0
RECURSIVE ClassEnd(_, _)
ClassEnd(pat, j) ==
    IF j > Len(pat) THEN 0
    ELSE IF pat[j] = "]" THEN j
    ELSE ClassEnd(pat, j + 1)

\* fnmatch.fnmatch(name, pat) on POSIX: "*" matches any run, "?" one
\* character, "[seq]" / "[!seq]" one character in / not in seq
RECURSIVE fnmatch(_, _)
fnmatch(name, pat) ==
    IF pat = <<>> THEN name = <<>>
    ELSE IF Head(pat) = "*"
         THEN \E k \in 0..Len(name) : fnmatch(SubSeq(name, k + 1, Len(name)), Tail(pat))
    ELSE IF Head(pat) = "?"
         THEN name # <<>> /\ fnmatch(Tail(name), Tail(pat))
    ELSE IF Head(pat) = "["
         THEN LET neg == Len(pat) > 1 /\ pat[2] = "!"
                  first == IF neg THEN 3 ELSE 2
                  close == ClassEnd(pat, first + 1)
              IN IF close = 0
                 THEN name # <<>> /\ Head(name) = "[" /\ fnmatch(Tail(name), Tail(pat))
                 ELSE /\ name # <<>>
                      /\ (Head(name) \in {pat[j] : j \in first..(close - 1)}) # neg
                      /\ fnmatch(Tail(name), SubSeq(pat, close + 1, Len(pat)))
    ELSE name # <<>> /\ Head(name) = Head(pat) /\ fnmatch(Tail(name), Tail(pat))

\* the elements a for loop draws from a list, or from a string (its characters)
Items(v) == IF IsList(v) THEN v.list ELSE [i \in 1..Len(v.str) |-> S(<<v.str[i]>>)]

\* the command string of BoxEngine._check_system_command; NoCommand when the
\* code returns True before building one
NoCommand == [nocommand |-> TRUE]
command_of(event, args) ==
    IF event = "subprocess.Popen"
    THEN LET executable == args[1]
             cmd_args == IF Len(args) > 1 THEN args[2] ELSE L(<<>>)
         IN IF Truthy(executable) /\ Truthy(cmd_args)
            THEN S(JoinSp(<<StrOf(executable)>> \o
                          [i \in 1..Len(Items(cmd_args)) |-> StrOf(Items(cmd_args)[i])]))
            ELSE IF Truthy(executable) THEN S(StrOf(executable))
            ELSE NoCommand
    ELSE S(StrOf(args[1]))

\* values a for loop can run over
IsIterable(v) == IsStr(v) \/ IsList(v) \/ DOMAIN v = {"tuple"}

\* [str(a) for a in cmd_args] raises TypeError on a truthy non-iterable argv
system_command_raises(event, args) ==
    /\ event = "subprocess.Popen" /\ Len(args) > 1
    /\ Truthy(args[1]) /\ Truthy(args[2]) /\ ~IsIterable(args[2])

\* a command check that compares the command with each pattern literally
check_system_command_exact(cfg, event, args) ==
    IF args = <<>> THEN TRUE
    ELSE LET command == command_of(event, args)
             patterns == Get(cfg, "allow_system_commands", <<>>)
         IN IF command = NoCommand THEN TRUE
            ELSE \E i \in 1..Len(patterns) : command.str = patterns[i].str

\* BoxEngine._check_system_command
check_system_command(cfg, event, args) ==
    IF args = <<>> THEN TRUE
    ELSE LET command == command_of(event, args)
             patterns == Get(cfg, "allow_system_commands", <<>>)
         IN IF command = NoCommand THEN TRUE
            ELSE \E i \in 1..Len(patterns) : fnmatch(command.str, patterns[i].str)

\* str.lower() on the alphabet of the model
LowerTok(c) == IF c = "Example" THEN "example" ELSE c
Lower(s) == [i \in 1..Len(s) |-> LowerTok(s[i])]

\* int(s) for the port strings of the model
PortStrings == (<<"443">> :> 443) @@ (<<"80">> :> 80)

\* index of the first ":" of s, or 0
RECURSIVE IndexOfColon(_, _)
IndexOfColon(s, i) ==
    IF i > Len(s) THEN 0 ELSE IF s[i] = ":" THEN i ELSE IndexOfColon(s, i + 1)

\* BoxEngine._parse_domain_entry: urlparse("//" + entry).hostname is the part
\* before the port separator, lower-cased; .port is the integer after it
parse_domain_entry(entry) ==
    LET c == IndexOfColon(entry, 1)
        hostpart == IF c = 0 THEN entry ELSE SubSeq(entry, 1, c - 1)
        portpart == IF c = 0 THEN <<>> ELSE SubSeq(entry, c + 1, Len(entry))
    IN [ domain |-> IF hostpart # <<>> THEN Lower(hostpart) ELSE entry,
         port |-> IF portpart = <<>> THEN None ELSE I(PortStrings[portpart]) ]

\* BoxEngine._check_domain
check_domain(cfg, args, event) ==
    IF args = <<>> THEN TRUE
    ELSE LET host == args[1]
             port == IF event = "socket.getaddrinfo" /\ Len(args) > 1 THEN args[2] ELSE None
             domains == Get(cfg, "allow_domains", <<>>)
         IN IF ~Truthy(host) \/ ~IsStr(host) THEN TRUE
            ELSE \/ Get(cfg, "allow_pypi_requests", FALSE) /\ host.str \in PYPI_HOSTS
                 \/ \E i \in 1..Len(domains) :
                      LET e == parse_domain_entry(domains[i].str) IN
                      /\ \/ host.str = e.domain
                         \/ EndsWith(host.str, <<".">> \o e.domain)
                      /\ \/ IsNone(e.port)
                         \/ IsNone(port)
                         \/ port = e.port

\* BoxEngine.check_permission
check_permission(cfg, event, args) ==
    IF event = "open" THEN check_file_access(cfg, args)
    ELSE IF event \in {"os.putenv", "os.unsetenv"} THEN check_env_write(cfg, args)
    ELSE IF event \in {"os.getenv", "os.environ.get"} THEN check_env_read(cfg, args)
    ELSE IF event \in {"subprocess.Popen", "os.system"}
         THEN check_system_command(cfg, event, args)
    ELSE IF event \in {"socket.getaddrinfo", "socket.gethostbyname"}
         THEN check_domain(cfg, args, event)
    ELSE TRUE

-----------------------------------------------------------------------------
(* The inputs: paths, hosts, events, config documents *)

P_in == <<"/", "w", "/", "a", "/", "f">>                               \* /w/a/f
P_rel == <<"a", "/", "f">>                                             \* a/f
P_dots == <<"/", "w", "/", "a", "/", "..", "/", "..", "/", "e", "/", "g">>  \* /w/a/../../e/g
P_pre == <<"/", "w", "/", "a", "b", "/", "f">>                         \* /w/ab/f
P_link == <<"/", "w", "/", "ln", "/", "g">>                            \* /w/ln/g, ln -> /e
P_out == <<"/", "e", "/", "g">>                                        \* /e/g
P_new == <<"/", "e", "/", "n">>                                        \* /e/n, never there
D_a == <<"/", "w", "/", "a">>                                          \* /w/a
D_ln == <<"/", "w", "/", "ln">>                                        \* /w/ln
D_e == <<"/", "e">>                                                    \* /e

PathArgs == {P_in, P_rel, P_dots, P_pre, P_link, P_out}
ModeArgs == {<<"r">>, <<"w">>, <<"r", "+">>}

\* the files whose content varies, and the digests a content can have
FilePaths == {resolve_path(P_in), resolve_path(P_out)}
Digests == {"h1", "h2"}
PinH1 == <<"sha256:", "h1">>

H_example == <<"example", ".", "com">>
H_api == <<"api", ".", "example", ".", "com">>
H_bad == <<"bad", "example", ".", "com">>
H_upper == <<"Example", ".", "com">>
H_pypi == <<"pypi", ".", "org">>
H_evil == <<"evil", ".", "com">>
HostArgs == {S(H_example), S(H_api), S(H_bad), S(H_upper), S(H_pypi), S(<<>>)}
PortArgs == {I(443), I(80), None}

OpenEvents == { [name |-> "open", args |-> <<S(p), S(m)>>] : p \in PathArgs, m \in ModeArgs }
DomainEvents ==
    { [name |-> "socket.getaddrinfo", args |-> <<h, p>>] : h \in HostArgs, p \in PortArgs }
    \cup { [name |-> "socket.gethostbyname", args |-> <<h>>] : h \in HostArgs }
EngineEvents == OpenEvents \cup DomainEvents

\* config documents that set the read rules, the write rules, the domain rules
ReadDocs ==
    { [allow_file_reads |-> fr, allow_dir_reads |-> dr] :
        fr \in {<<>>, <<S(P_out)>>, <<S(P_rel)>>},
        dr \in {<<>>, <<S(D_a)>>, <<S(D_ln)>>, <<S(WorkdirStr), S(D_e)>>} }
WriteDocs ==
    { [allow_file_writes |-> fw, allow_dir_writes |-> dw,
       allow_file_changes |-> fc, allow_dir_changes |-> dc] :
        fw \in {<<>>, <<S(P_out)>>},
        dw \in {<<>>, <<S(WorkdirStr)>>},
        fc \in {<<>>, <<S(P_out)>>, <<[path |-> P_out, hash |-> PinH1]>>,
                <<[path |-> P_in, hash |-> PinH1]>>,
                <<[path |-> P_out, hash |-> PinH1], S(P_out)>>},
        dc \in {<<>>, <<S(WorkdirStr)>>} }
DomainDocs ==
    { [allow_domains |-> d, allow_pypi_requests |-> py] :
        d \in {<<>>, <<S(H_example)>>, <<S(H_example \o <<":", "443">>)>>, <<S(H_upper)>>},
        py \in BOOLEAN }
EngineDocs == ReadDocs \cup WriteDocs \cup DomainDocs

-----------------------------------------------------------------------------
(* The record of the most recent call *)

NoExit == -1
NoCall == [event |-> "", args |-> <<>>, checked |-> FALSE, allowed |-> FALSE,
           outcome |-> "none", answer |-> ""]
Call(ev, checked, allowed, outcome, answer) ==
    [event |-> ev.name, args |-> ev.args, checked |-> checked, allowed |-> allowed,
     outcome |-> outcome, answer |-> answer]
NoEvent == [name |-> "", args |-> <<>>]

\* the parts of the state the engine alone never touches
HookIdle ==
    /\ decisions = <<>> /\ session_allowed = {} /\ in_hook = FALSE
    /\ status = "running" /\ exit_code = NoExit /\ stderr = <<>>
    /\ pending = NoEvent /\ persisted = {} /\ gen = 1 /\ nEvents = 0

-----------------------------------------------------------------------------
(* SpecEngine: an engine is constructed from a config document and          *)
(* check_permission is applied to events while files come and go.           *)

InitEngine ==
    /\ files \in [FilePaths -> Digests \cup {Absent}]
    /\ cfgFile \in {Doc(d) : d \in EngineDocs}
    /\ config = load_config(cfgFile)
    /\ box_mode = "none" /\ impl = "engine"
    /\ last = NoCall
    /\ HookIdle

\* engine.check_permission(event, args): it returns a boolean or raises
Check(ev) ==
    /\ impl = "engine" /\ config \notin {NoConfig, Raised}
    /\ last' = IF system_command_raises(ev.name, ev.args)
               THEN Call(ev, TRUE, FALSE, "raised", "")
               ELSE Call(ev, TRUE, check_permission(config, ev.name, ev.args), "returned", "")
    /\ UNCHANGED <<files, cfgFile, config, decisions, session_allowed, in_hook, box_mode,
                   impl, status, exit_code, stderr, pending, persisted, gen, nEvents>>

\* a file is created, rewritten or deleted by the program or by anyone else
FsChange(p, d) ==
    /\ status \notin {"exited", "replaced"}
    /\ files[p] # d
    /\ files' = [files EXCEPT ![p] = d]
    /\ last' = NoCall
    /\ UNCHANGED <<cfgFile, config, decisions, session_allowed, in_hook, box_mode, impl,
                   status, exit_code, stderr, pending, persisted, gen, nEvents>>

NextEngine ==
    \/ \E ev \in EngineEvents : Check(ev)
    \/ \E p \in FilePaths, d \in Digests \cup {Absent} : FsChange(p, d)

SpecEngine == InitEngine /\ [][NextEngine]_vars

-----------------------------------------------------------------------------
(* SpecArgs: an engine is constructed from any state of the config file,    *)
(* then check_permission is applied to command and environment events and   *)
(* to events with empty, short or ill-typed args, and _verify_file_hash to  *)
(* files and pinned hashes.                                                 *)

C_git_status == <<"git", " ", "status">>
C_git_push == <<"git", " ", "push", " ", "origin">>
C_gitstatus == <<"git", "status">>
C_rm == <<"rm", " ", "-rf", " ", "/">>
C_ax == <<"a", "x">>
Pat_git == <<"git", " ", "*">>
Pat_class == <<"[", "a", "b", "]", "x">>

CommandEvents ==
    { [name |-> "os.system", args |-> <<S(c)>>] :
        c \in {C_git_status, C_git_push, C_gitstatus, C_rm, C_ax, Pat_class} }
    \cup { [name |-> "subprocess.Popen", args |-> a] :
             a \in { <<S(<<"git">>), L(<<S(<<"status">>)>>)>>,
                     <<S(<<"git">>), L(<<S(<<"push">>), S(<<"origin">>)>>)>>,
                     <<S(C_gitstatus), L(<<>>)>>,
                     <<S(<<"rm">>), L(<<S(<<"-rf">>), S(<<"/">>)>>)>>,
                     <<S(<<"git">>)>>,
                     <<S(<<"a">>), S(<<"x">>)>> } }

EnvEvents ==
    { [name |-> "os.putenv", args |-> <<S(<<"K">>), S(<<"v">>)>>],
      [name |-> "os.unsetenv", args |-> <<S(<<"K">>)>>],
      [name |-> "os.unsetenv", args |-> <<S(<<"J">>)>>],
      [name |-> "os.getenv", args |-> <<S(<<"K">>)>>],
      [name |-> "os.environ.get", args |-> <<S(<<"HOME">>)>>] }

\* modeled events whose args are empty, short or of an unexpected type
MalformedEvents ==
    { [name |-> n, args |-> <<>>] :
        n \in {"open", "os.putenv", "os.getenv", "os.system", "subprocess.Popen",
               "socket.getaddrinfo", "socket.gethostbyname"} }
    \cup { [name |-> "open", args |-> <<I(5), S(<<"w">>)>>],
           [name |-> "open", args |-> <<S(P_out), None>>],
           [name |-> "open", args |-> <<S(P_out)>>],
           [name |-> "os.system", args |-> <<I(5)>>],
           [name |-> "subprocess.Popen", args |-> <<S(<<"git">>), I(5)>>],
           [name |-> "subprocess.Popen", args |-> <<S(<<"git">>), None>>],
           [name |-> "subprocess.Popen", args |-> <<None, L(<<S(<<"status">>)>>)>>],
           [name |-> "socket.getaddrinfo", args |-> <<I(5), I(80)>>],
           [name |-> "socket.gethostbyname", args |-> <<S(<<>>)>>] }

\* event names the engine has no handler for
UnmodeledEvents ==
    { [name |-> "import", args |-> <<S(<<"os">>)>>],
      [name |-> "socket.connect", args |-> <<Obj("socket"), L(<<S(H_evil), I(80)>>)>>] }

ArgEvents == CommandEvents \cup EnvEvents \cup MalformedEvents \cup UnmodeledEvents

ArgDocs ==
    { [allow_system_commands |-> sc, allow_env_var_writes |-> ew,
       allow_env_var_reads |-> er] :
        sc \in {<<>>, <<S(Pat_git)>>, <<S(Pat_class), S(C_rm)>>},
        ew \in {<<>>, <<S(<<"K">>)>>},
        er \in {<<>>, <<S(<<"HOME">>)>>} }
    \cup { [allow_domains |-> <<S(H_example)>>, comment |-> S(<<"mine">>)],
           [allow_dir_reads |-> <<>>, allow_pypi_requests |-> FALSE] }

ArgFiles ==
    { Doc(d) : d \in ArgDocs }
    \cup { Missing, Garbage, NoAccess, BadBytes,
           NotObject(L(<<>>)), NotObject(I(5)), NotObject(None) }

HashArgs == { PinH1, <<"sha256:", "h2">>, <<"md5:", "h1">>, <<"SHA256:", "h1">>, <<"h1">> }
HashPaths == { resolve_path(P_in), resolve_path(P_out), resolve_path(P_new), Workdir }

InitArgs ==
    /\ files \in { [p \in FilePaths |-> d] : d \in {"h1", Absent, ReadFails} }
    /\ cfgFile \in ArgFiles
    /\ config = NoConfig
    /\ box_mode = "none" /\ impl = "engine"
    /\ last = NoCall
    /\ HookIdle

\* BoxEngine(config_path, workdir): self.config = self._load_config()
Construct ==
    /\ impl = "engine" /\ config = NoConfig
    /\ config' = load_config(cfgFile)
    /\ last' = [NoCall EXCEPT !.event = "__init__",
                              !.outcome = IF load_raises(cfgFile) THEN "raised"
                                          ELSE "returned"]
    /\ UNCHANGED <<files, cfgFile, decisions, session_allowed, in_hook, box_mode, impl,
                   status, exit_code, stderr, pending, persisted, gen, nEvents>>

\* engine._verify_file_hash(path, expected_hash)
VerifyHash(path, expected_hash) ==
    /\ impl = "engine" /\ config \notin {NoConfig, Raised}
    /\ last' = [NoCall EXCEPT !.event = "_verify_file_hash",
                              !.args = <<path, expected_hash>>,
                              !.checked = TRUE,
                              !.allowed = verify_file_hash(path, expected_hash),
                              !.outcome = "returned"]
    /\ UNCHANGED <<files, cfgFile, config, decisions, session_allowed, in_hook, box_mode,
                   impl, status, exit_code, stderr, pending, persisted, gen, nEvents>>

NextArgs ==
    \/ Construct
    \/ \E ev \in ArgEvents : Check(ev)
    \/ \E path \in HashPaths, h \in HashArgs : VerifyHash(path, h)

SpecArgs == InitArgs /\ [][NextArgs]_vars

-----------------------------------------------------------------------------
(* formatting.py and engine.py: recording and persisting decisions *)

\* formatting.extract_decision_details
extract_decision_details(event, args) ==
    IF event = "open" /\ args # <<>>
    THEN [event |-> event,
          path |-> S(StrOf(args[1])),
          mode |-> IF Len(args) > 1 /\ ~IsNone(args[2]) THEN args[2] ELSE S(<<"r">>),
          is_new_file |-> ~exists(resolve_path(StrOf(args[1])))]
    ELSE IF event \in {"subprocess.Popen", "os.system"} /\ args # <<>>
    THEN [event |-> event,
          command |-> IF event = "os.system" THEN S(StrOf(args[1]))
                      ELSE S(JoinSp(<<StrOf(args[1])>> \o
                               (IF Len(args) > 1
                                THEN [i \in 1..Len(Items(args[2])) |-> StrOf(Items(args[2])[i])]
                                ELSE <<>>)))]
    ELSE IF event \in {"os.putenv", "os.unsetenv"} /\ args # <<>>
    THEN [event |-> event, key |-> S(StrOf(args[1]))]
    ELSE IF event = "socket.getaddrinfo" /\ args # <<>>
    THEN IF Len(args) > 1 /\ ~IsNone(args[2])
         THEN [event |-> event, domain |-> S(StrOf(args[1])), port |-> args[2]]
         ELSE [event |-> event, domain |-> S(StrOf(args[1]))]
    ELSE IF event = "socket.gethostbyname" /\ args # <<>>
    THEN [event |-> event, domain |-> S(StrOf(args[1]))]
    ELSE [event |-> event]

\* the dict appended by BoxEngine.record_decision
decision_record(ev, details) ==
    [event |-> ev.name, args |-> ev.args, allowed |-> TRUE, details |-> details]

\* an entry appended to a category although it is already there
append_entry_always(cfg, key, entry) ==
    [k \in DOMAIN cfg \cup {key} |->
        IF k = key THEN Append(Get(cfg, key, <<>>), entry) ELSE cfg[k]]

\* if entry not in config.get(key, []): config.setdefault(key, []).append(entry)
append_entry(cfg, key, entry) ==
    IF InList(entry, Get(cfg, key, <<>>)) THEN cfg
    ELSE [k \in DOMAIN cfg \cup {key} |->
            IF k = key THEN Append(Get(cfg, key, <<>>), entry) ELSE cfg[k]]

SaveWriteChars == {"w", "a", "x"}

\* the (category, entry) save_decisions derives from one decision, <<>> if none
persist_target(d) ==
    LET details == d.details IN
    IF d.event = "open"
    THEN IF "path" \in DOMAIN details /\ Truthy(details.path)
         THEN IF AnyCharIn(details.mode.str, SaveWriteChars)
              THEN <<"allow_file_writes", details.path>>
              ELSE <<"allow_file_reads", details.path>>
         ELSE <<>>
    ELSE IF d.event \in {"subprocess.Popen", "os.system"}
    THEN IF "command" \in DOMAIN details /\ Truthy(details.command)
         THEN <<"allow_system_commands", details.command>>
         ELSE <<>>
    ELSE IF d.event \in {"os.putenv", "os.unsetenv"}
    THEN IF "key" \in DOMAIN details /\ Truthy(details.key)
         THEN <<"allow_env_var_writes", details.key>>
         ELSE <<>>
    ELSE IF d.event \in {"socket.getaddrinfo", "socket.gethostbyname"}
    THEN IF "domain" \in DOMAIN details /\ Truthy(details.domain)
         THEN <<"allow_domains",
                IF "port" \in DOMAIN details /\ Truthy(details.port)
                THEN S(details.domain.str \o <<":">> \o StrOf(details.port))
                ELSE details.domain>>
         ELSE <<>>
    ELSE <<>>

\* the body of the loop of BoxEngine.save_decisions for one decision
apply_decision(cfg, d) ==
    LET t == persist_target(d) IN
    IF ~d.allowed \/ Len(t) = 0 THEN cfg ELSE append_entry(cfg, t[1], t[2])

RECURSIVE apply_decisions(_, _)
apply_decisions(cfg, decs) ==
    IF decs = <<>> THEN cfg
    ELSE apply_decisions(apply_decision(cfg, Head(decs)), Tail(decs))

\* open(self.config_path, "w") raises OSError
write_fails(file) == file = NoAccess

\* save_decisions, first half: existing = json.load(f), or the default policy
\* when the file is missing or unreadable
read_existing(file) == IF IsDoc(file) THEN file.doc ELSE default_config

\* save_decisions, second half: merge the decisions, json.dump(existing, f)
write_merged(existing, decs) == Doc(apply_decisions(existing, decs))

\* a save that starts from the default policy whatever the file holds
save_decisions_from_defaults(file, decs) ==
    IF decs = <<>> THEN file ELSE Doc(apply_decisions(default_config, decs))

\* BoxEngine.save_decisions: the config file after the call; a failing write
\* leaves the file as it is
save_decisions(file, decs) ==
    IF decs = <<>> \/ write_fails(file) THEN file
    ELSE write_merged(read_existing(file), decs)

-----------------------------------------------------------------------------
(* hook.py, hooks/run_hook.py, hooks/review_hook.py, cli.py: the hooks *)

MaxEvents == 3       \* events delivered to the hooks over a whole behaviour
MaxGen == 2          \* processes started one after the other on one config file
MaxTraces == 1       \* stack traces asked for at one prompt

ExitBlocked == 78
ExitAborted == 130
ExitDenied == 1
ExitSuccess == 0

E_read_out == [name |-> "open", args |-> <<S(P_out), S(<<"r">>)>>]
E_write_out == [name |-> "open", args |-> <<S(P_out), S(<<"w">>)>>]
E_dns == [name |-> "socket.getaddrinfo", args |-> <<S(H_example), I(443)>>]
E_connect == [name |-> "socket.connect", args |-> <<Obj("socket"), L(<<S(H_evil), I(80)>>)>>]
E_putenv == [name |-> "os.putenv", args |-> <<S(<<"K">>), S(<<"v">>)>>]
E_getenv == [name |-> "os.getenv", args |-> <<S(<<"K">>)>>]
E_system == [name |-> "os.system", args |-> <<S(<<"git", " ", "status">>)>>]
\* sys.audit("os.exec", path, args, env)
E_exec == [name |-> "os.exec", args |-> <<S(<<"/bin/sh">>), L(<<S(<<"sh">>)>>), None>>]
HookEvents == {E_read_out, E_write_out, E_dns, E_connect, E_putenv, E_getenv, E_system,
               E_exec}

\* the config file the first process finds
HookFiles ==
    { Missing,
      Doc([allow_env_var_reads |-> <<S(<<"HOME">>)>>,
           allow_file_writes |-> <<S(P_out)>>]) }

\* (mode, implementation): hook.py serves all three modes, hooks/run_hook.py
\* and hooks/review_hook.py one each, cli.py's review template one
Installs == { <<"run", "hook">>, <<"run", "hooks">>, <<"force", "hook">>,
              <<"review", "hook">>, <<"review", "hooks">>, <<"review", "cli">> }

\* what engine.classify_env_var can answer for a variable
EnvClasses == {"silent", "info", "block"}
EnvReadEvents == {"os.getenv", "os.environ.get"}

\* hook.py: the hook returns before any check for a silent or info variable
prefiltered(ev, class) ==
    impl = "hook" /\ ev.name \in EnvReadEvents /\ class \in {"silent", "info"}

\* a Python tuple
T(xs) == [tuple |-> xs]
IsTuple(v) == DOMAIN v = {"tuple"}

\* make_hashable: lists and tuples become tuples, element by element
RECURSIVE make_hashable(_)
make_hashable(v) ==
    IF IsList(v) THEN T([i \in 1..Len(v.list) |-> make_hashable(v.list[i])])
    ELSE IF IsTuple(v) THEN T([i \in 1..Len(v.tuple) |-> make_hashable(v.tuple[i])])
    ELSE v

\* key = (event, make_hashable(args))
session_key(ev) == <<ev.name, T([i \in 1..Len(ev.args) |-> make_hashable(ev.args[i])])>>

\* a hook that never finds a key in the session cache
session_hit_never(ev) == FALSE

\* if key in session_allowed: return
session_hit(ev) == impl # "cli" /\ session_key(ev) \in session_allowed

\* a LogOnly callback that ends the process as the Enforce one does
on_violation_force_exits == [status |-> "exited", exit_code |-> ExitBlocked, line |-> "Violation"]

\* on_violation of setup_force_hook: log and go on
on_violation_force == [status |-> "running", exit_code |-> NoExit, line |-> "Violation"]

\* a violation callback that logs the event and lets the hook return
on_violation_run_returns == [status |-> "running", exit_code |-> NoExit, line |-> "Blocked"]

\* on_violation of setup_run_hook: _log_blocked, os._exit(78)
on_violation_run == [status |-> "exited", exit_code |-> ExitBlocked, line |-> "Blocked"]

\* hooks/run_hook.py: write BLOCKED, os._exit(78)
run_hook_blocked == [status |-> "exited", exit_code |-> ExitBlocked, line |-> "BLOCKED"]

\* the approvals a save_decisions call of this process writes out
saved_keys(decs) ==
    IF write_fails(cfgFile) THEN {}
    ELSE { <<gen, decs[i].event, decs[i].args>> : i \in 1..Len(decs) }

\* sys.stderr.write("[malwi-box] Warning: Could not save config ...")
save_warning(file, decs) ==
    IF decs # <<>> /\ write_fails(file) THEN <<"Warning">> ELSE <<>>

\* a save_decisions that does not catch the OSError of the write
save_raises_uncaught(file, decs) == decs # <<>> /\ write_fails(file)

\* except OSError as e: the failure of the write never leaves save_decisions
save_raises(file, decs) == FALSE

Init ==
    /\ files \in { [p \in FilePaths |-> IF p = resolve_path(P_out) THEN d ELSE "h1"] :
                     d \in {"h1", Absent} }
    /\ cfgFile \in HookFiles
    /\ config = load_config(cfgFile)
    /\ \E i \in Installs : box_mode = i[1] /\ impl = i[2]
    /\ last = NoCall
    /\ HookIdle

CanDeliver == status = "running" /\ ~in_hook /\ nEvents < MaxEvents

\* the hook returns and the event proceeds
Returns(ev, checked, allowed) ==
    /\ last' = Call(ev, checked, allowed, "returned", "")
    /\ stderr' = <<>>
    /\ UNCHANGED <<status, exit_code>>

\* Enforce: the hook of setup_run_hook (hook.py) or of hooks/run_hook.py
RunHook(ev, class) ==
    /\ box_mode = "run" /\ CanDeliver
    /\ nEvents' = nEvents + 1
    /\ IF prefiltered(ev, class) THEN Returns(ev, FALSE, FALSE)
       ELSE IF check_permission(config, ev.name, ev.args) THEN Returns(ev, TRUE, TRUE)
       ELSE LET v == IF impl = "hook" THEN on_violation_run ELSE run_hook_blocked IN
            /\ stderr' = <<v.line>>
            /\ status' = v.status
            /\ exit_code' = v.exit_code
            /\ last' = Call(ev, TRUE, FALSE,
                            IF v.status = "exited" THEN "exited" ELSE "returned", "")
    /\ UNCHANGED <<files, cfgFile, config, decisions, session_allowed, in_hook, box_mode,
                   impl, pending, persisted, gen>>

\* LogOnly: the hook of setup_force_hook
ForceHook(ev, class) ==
    /\ box_mode = "force" /\ CanDeliver
    /\ nEvents' = nEvents + 1
    /\ IF prefiltered(ev, class) THEN Returns(ev, FALSE, FALSE)
       ELSE IF check_permission(config, ev.name, ev.args) THEN Returns(ev, TRUE, TRUE)
       ELSE /\ stderr' = <<on_violation_force.line>>
            /\ status' = on_violation_force.status
            /\ exit_code' = on_violation_force.exit_code
            /\ last' = Call(ev, TRUE, FALSE,
                            IF on_violation_force.status = "exited" THEN "exited"
                            ELSE "returned", "")
    /\ UNCHANGED <<files, cfgFile, config, decisions, session_allowed, in_hook, box_mode,
                   impl, pending, persisted, gen>>

\* Interactive: the hook up to the prompt. hook.py and hooks/review_hook.py
\* keep a session cache and a recursion guard, the cli.py template neither.
ReviewHook(ev, class) ==
    /\ box_mode = "review" /\ CanDeliver
    /\ nEvents' = nEvents + 1
    /\ IF prefiltered(ev, class)
       THEN Returns(ev, FALSE, FALSE) /\ UNCHANGED <<in_hook, pending>>
       ELSE IF session_hit(ev)
       THEN Returns(ev, FALSE, FALSE) /\ UNCHANGED <<in_hook, pending>>
       ELSE IF check_permission(config, ev.name, ev.args)
       THEN Returns(ev, TRUE, TRUE) /\ UNCHANGED <<in_hook, pending>>
       ELSE /\ stderr' = <<"Event">>
            /\ status' = "prompting"
            /\ pending' = ev
            /\ in_hook' = (impl # "cli")
            /\ last' = Call(ev, TRUE, FALSE, "prompt", "")
            /\ UNCHANGED exit_code
    /\ UNCHANGED <<files, cfgFile, config, decisions, session_allowed, box_mode, impl,
                   persisted, gen>>

\* the answers the prompt can get: a line, end of input, or an interrupt
Answers == {"y", "n", "i", "a", "EOF", "INT"}

\* an interrupt that is not caught with the end of input
is_abort_eof_only(resp) == resp = "EOF"

\* what an answer means to each implementation
is_abort(resp) == resp \in {"EOF", "INT"}
is_inspect(resp) == impl = "hook" /\ resp = "i"
is_deny(resp) == IF impl = "cli" THEN resp \notin {"y", "a", "EOF", "INT"} ELSE resp = "n"
is_record(resp) ==
    IF impl = "cli" THEN resp = "a" ELSE ~is_abort(resp) /\ ~is_inspect(resp) /\ resp # "n"

PROCESS_REPLACING_EVENTS == {"os.exec", "os.posix_spawn"}

\* a denial that terminates without flushing the recorded decisions
flush_on_deny_skipped(file, decs) == file

\* engine.save_decisions() before os._exit(1) / os._exit(130)
flush_on_deny(file, decs) == save_decisions(file, decs)

\* the process ends inside the hook: diagnostic, save_decisions, os._exit(code)
Terminates(resp, line, code) ==
    /\ stderr' = Append(stderr, line) \o save_warning(cfgFile, decisions)
    /\ cfgFile' = flush_on_deny(cfgFile, decisions)
    /\ persisted' = persisted \cup saved_keys(decisions)
    /\ IF save_raises(cfgFile, decisions)
       THEN /\ status' = "running"
            /\ exit_code' = NoExit
            /\ in_hook' = FALSE
            /\ last' = [last EXCEPT !.outcome = "raised", !.answer = resp]
       ELSE /\ status' = "exited"
            /\ exit_code' = code
            /\ in_hook' = in_hook
            /\ last' = [last EXCEPT !.outcome = "exited", !.answer = resp]
    /\ UNCHANGED <<decisions, session_allowed, pending>>

\* Interactive: the operator's answer and the rest of the hook
Answer(resp) ==
    /\ box_mode = "review" /\ status = "prompting"
    /\ IF is_abort(resp) THEN Terminates(resp, "Aborted", ExitAborted)
       ELSE IF is_inspect(resp)
       THEN /\ Len(stderr) <= MaxTraces
            /\ stderr' = Append(stderr, "Trace")
            /\ last' = [last EXCEPT !.answer = resp]
            /\ UNCHANGED <<cfgFile, persisted, status, exit_code, decisions,
                           session_allowed, in_hook, pending>>
       ELSE IF is_deny(resp) THEN Terminates(resp, "Denied", ExitDenied)
       ELSE LET decs == IF is_record(resp)
                        THEN Append(decisions,
                                 decision_record(pending,
                                     extract_decision_details(pending.name, pending.args)))
                        ELSE decisions
                saves == \/ impl = "hook" /\ is_record(resp)
                         \/ impl = "hooks" /\ pending.name \in PROCESS_REPLACING_EVENTS
            IN /\ session_allowed' = IF impl = "cli" THEN session_allowed
                                     ELSE session_allowed \cup {session_key(pending)}
               /\ decisions' = decs
               /\ cfgFile' = IF saves THEN save_decisions(cfgFile, decs) ELSE cfgFile
               /\ persisted' = IF saves THEN persisted \cup saved_keys(decs) ELSE persisted
               /\ in_hook' = FALSE
               /\ status' = "running"
               /\ pending' = NoEvent
               /\ last' = [last EXCEPT !.answer = resp,
                                        !.outcome = IF saves /\ save_raises(cfgFile, decs)
                                                    THEN "raised" ELSE "returned"]
               /\ stderr' = IF saves THEN stderr \o save_warning(cfgFile, decs) ELSE stderr
               /\ UNCHANGED exit_code
    /\ UNCHANGED <<files, config, box_mode, impl, gen, nEvents>>

\* the program ends by itself; in review mode atexit runs save_on_exit
ExitNormally ==
    /\ status = "running" /\ ~in_hook
    /\ status' = "exited"
    /\ exit_code' = ExitSuccess
    /\ cfgFile' = IF box_mode = "review" THEN save_decisions(cfgFile, decisions) ELSE cfgFile
    /\ persisted' = IF box_mode = "review" THEN persisted \cup saved_keys(decisions)
                    ELSE persisted
    /\ last' = NoCall
    /\ stderr' = IF box_mode = "review" THEN stderr \o save_warning(cfgFile, decisions)
                  ELSE stderr
    /\ UNCHANGED <<files, config, decisions, session_allowed, in_hook, box_mode, impl,
                   pending, gen, nEvents>>

\* the program is run again: BoxEngine() is constructed from the file as it is
StartProcess ==
    /\ status \in {"exited", "replaced"} /\ gen < MaxGen
    /\ config' = load_config(cfgFile)
    /\ decisions' = <<>>
    /\ session_allowed' = {}
    /\ in_hook' = FALSE
    /\ status' = "running"
    /\ exit_code' = NoExit
    /\ stderr' = <<>>
    /\ pending' = NoEvent
    /\ last' = NoCall
    /\ gen' = gen + 1
    /\ UNCHANGED <<files, cfgFile, box_mode, impl, persisted, nEvents>>

\* os.execv after its audit hook returned: the process image is replaced, the
\* interpreter's state is gone and no atexit handler runs
ReplaceImage ==
    /\ status = "running" /\ ~in_hook
    /\ last.event \in PROCESS_REPLACING_EVENTS /\ last.outcome = "returned"
    /\ status' = "replaced"
    /\ last' = NoCall
    /\ UNCHANGED <<files, cfgFile, config, decisions, session_allowed, in_hook, box_mode,
                   impl, exit_code, stderr, pending, persisted, gen, nEvents>>

Next ==
    \/ \E ev \in HookEvents, class \in EnvClasses : RunHook(ev, class)
    \/ \E ev \in HookEvents, class \in EnvClasses : ForceHook(ev, class)
    \/ \E ev \in HookEvents, class \in EnvClasses : ReviewHook(ev, class)
    \/ \E resp \in Answers : Answer(resp)
    \/ ExitNormally
    \/ ReplaceImage
    \/ StartProcess
    \/ \E d \in {"h1", Absent} : FsChange(resolve_path(P_out), d)

Spec == Init /\ [][Next]_vars

\* SpecFail: the same hooks on a config file that cannot be opened, neither
\* for reading (the engine runs on the default policy) nor for writing
InitFail ==
    /\ files \in { [p \in FilePaths |-> IF p = resolve_path(P_out) THEN d ELSE "h1"] :
                     d \in {"h1", Absent} }
    /\ cfgFile = NoAccess
    /\ config = load_config(cfgFile)
    /\ \E i \in Installs : box_mode = i[1] /\ impl = i[2]
    /\ last = NoCall
    /\ HookIdle

SpecFail == InitFail /\ [][Next]_vars

-----------------------------------------------------------------------------
(* SpecSave: record_decision and save_decisions called on an engine, as the *)
(* review hooks and the tests call them.                                    *)

MaxDecisions == 2    \* decisions recorded in one buffer

E_read_in == [name |-> "open", args |-> <<S(P_in), S(<<"r">>)>>]
E_write_new == [name |-> "open", args |-> <<S(P_new), S(<<"w">>)>>]
E_update_out == [name |-> "open", args |-> <<S(P_out), S(<<"r", "+">>)>>]
SaveEvents ==
    {E_read_out, E_write_out, E_read_in, E_write_new, E_update_out, E_dns, E_putenv,
     E_system}

SaveFiles ==
    { Missing, Garbage,
      Doc([allow_file_reads |-> <<S(P_out)>>, comment |-> S(<<"mine">>)]) }

InitSave ==
    /\ files \in { [p \in FilePaths |-> d] : d \in {"h1", Absent} }
    /\ cfgFile \in SaveFiles
    /\ config = load_config(cfgFile)
    /\ box_mode = "none" /\ impl = "engine"
    /\ last = NoCall
    /\ HookIdle

\* engine.record_decision(event, args, allowed=True, details=extract_decision_details(...))
RecordDecision(ev) ==
    /\ impl = "engine" /\ Len(decisions) < MaxDecisions
    /\ decisions' = Append(decisions,
                        decision_record(ev, extract_decision_details(ev.name, ev.args)))
    /\ last' = Call(ev, FALSE, FALSE, "recorded", "")
    /\ UNCHANGED <<files, cfgFile, config, session_allowed, in_hook, box_mode, impl,
                   status, exit_code, stderr, pending, persisted, gen, nEvents>>

\* a save that empties the buffer it has written
buffer_cleared_by_save(decs) == <<>>

\* save_decisions iterates over self._decisions and never assigns to it
buffer_after_save(decs) == decs

\* engine.save_decisions()
SaveDecisions ==
    /\ impl = "engine"
    /\ cfgFile' = save_decisions(cfgFile, decisions)
    /\ decisions' = buffer_after_save(decisions)
    /\ persisted' = persisted \cup saved_keys(decisions)
    /\ last' = [NoCall EXCEPT !.event = "save_decisions", !.outcome = "returned"]
    /\ UNCHANGED <<files, config, session_allowed, in_hook, box_mode, impl,
                   status, exit_code, stderr, pending, gen, nEvents>>

NextSave ==
    \/ \E ev \in SaveEvents : RecordDecision(ev)
    \/ SaveDecisions

SpecSave == InitSave /\ [][NextSave]_vars

-----------------------------------------------------------------------------
(* Claims about the engine, checked under SpecEngine *)

LastIsOpen == last.checked /\ last.event = "open" /\ Len(last.args) > 1 /\ IsStr(last.args[1])
LastPath == last.args[1].str
LastMode == last.args[2].str
ContainsWriteChar(m) == \E i \in 1..Len(m) : m[i] \in {"w", "a", "x", "+"}

\* the expected resolved form of every path string of the model: absolute
\* against /w, ".." applied, the link /w/ln followed to /e
Canonical ==
    (P_in :> <<Root, <<"w">>, <<"a">>, <<"f">>>>) @@
    (P_rel :> <<Root, <<"w">>, <<"a">>, <<"f">>>>) @@
    (P_dots :> <<Root, <<"e">>, <<"g">>>>) @@
    (P_pre :> <<Root, <<"w">>, <<"a", "b">>, <<"f">>>>) @@
    (P_link :> <<Root, <<"e">>, <<"g">>>>) @@
    (P_out :> <<Root, <<"e">>, <<"g">>>>) @@
    (P_new :> <<Root, <<"e">>, <<"n">>>>) @@
    (D_a :> <<Root, <<"w">>, <<"a">>>>) @@
    (D_ln :> <<Root, <<"e">>>>) @@
    (D_e :> <<Root, <<"e">>>>) @@
    (WorkdirStr :> <<Root, <<"w">>>>) @@
    (<<"/", "py">> :> <<Root, <<"py">>>>)

\* d is p or an ancestor of p, component by component
IsAncestorOrSelf(d, p) == Len(d) <= Len(p) /\ \A i \in 1..Len(d) : d[i] = p[i]

\* the file exists now
OnDisk(p) == p \in DOMAIN files /\ files[p] # Absent

\* some allow_file_changes entry for this very file pins a digest other than
\* the file's current one
PinnedMismatch(p) ==
    \E i \in 1..Len(config.allow_file_changes) :
        LET e == config.allow_file_changes[i] IN
        /\ "hash" \in DOMAIN e
        /\ Canonical[e.path] = p
        /\ e.hash # <<"sha256:", files[p]>>

\* C1: a write-mode open of an existing file whose resolved path equals a
\* modification entry carrying a hash is denied whenever the file's current
\* digest differs from the pinned one, however else the path is allow-listed.
C1_HashPinDenies ==
    (LastIsOpen /\ ContainsWriteChar(LastMode) /\ OnDisk(Canonical[LastPath])
        /\ PinnedMismatch(Canonical[LastPath]))
    => ~last.allowed

CreationKeys == {"allow_file_writes", "allow_dir_writes"}
ModificationKeys == {"allow_file_changes", "allow_dir_changes"}
Blank(cfg, keys) == [k \in DOMAIN cfg |-> IF k \in keys THEN <<>> ELSE cfg[k]]
Flood(cfg, keys) ==
    [k \in DOMAIN cfg |-> IF k \in keys THEN <<S(WorkdirStr), S(D_e)>> ELSE cfg[k]]

EntryPathOf(e) == IF IsStr(e) THEN e.str ELSE e.path

LastIsDns ==
    /\ last.checked
    /\ last.event \in {"socket.getaddrinfo", "socket.gethostbyname"}
    /\ last.args # <<>>
    /\ IsStr(last.args[1])

\* an allow_domains entry "D" or "D:P" as written: the text before the colon
\* and the port after it
EntryDomain(e) ==
    IF \E i \in 1..Len(e) : e[i] = ":"
    THEN SubSeq(e, 1, (CHOOSE i \in 1..Len(e) : e[i] = ":") - 1)
    ELSE e
EntryHasPort(e) == \E i \in 1..Len(e) : e[i] = ":"
EntryPort(e) == e[Len(e)]

\* C4: a resolution event for a (non-empty) host is allowed exactly when the
\* host is a PyPI host and allow_pypi_requests is true, or some allow_domains
\* entry "D" / "D:P" has host = D or host ending in "." + D and the entry has
\* no port, or the event carries none, or the ports are equal.
C4_DomainAllowedIff ==
    (LastIsDns /\ last.args[1].str # <<>>) =>
        LET host == last.args[1].str
            port == IF last.event = "socket.getaddrinfo" /\ Len(last.args) > 1
                    THEN last.args[2] ELSE None
            dom == config.allow_domains
        IN last.allowed <=>
            \/ config.allow_pypi_requests /\ host \in PYPI_HOSTS
            \/ \E i \in 1..Len(dom) :
                 LET e == dom[i].str IN
                 /\ host = EntryDomain(e) \/ EndsWith(host, <<".">> \o EntryDomain(e))
                 /\ \/ ~EntryHasPort(e)
                    \/ port = None
                    \/ (IsInt(port) /\ <<ToString(port.int)>> = <<EntryPort(e)>>)

-----------------------------------------------------------------------------
(* Claims about the hooks and about persistence, checked under Spec *)

\* a hook invocation has been made for the event and has come to its end
LastDelivered == last.event # "" /\ last.outcome \in {"returned", "exited"}

\* the host of a socket.connect event: args = (sock, (host, port))
ConnectHost == last.args[2].list[1].str

HostAllowListed(host) ==
    \/ config.allow_pypi_requests /\ host \in PYPI_HOSTS
    \/ \E i \in 1..Len(config.allow_domains) :
         LET e == EntryDomain(config.allow_domains[i].str) IN
         host = e \/ EndsWith(host, <<".">> \o e)

\* C5: in Enforce mode a socket.connect event to a host that is neither on
\* the domain allow-list nor a PyPI host ends the process with exit status 78
\* and a Blocked diagnostic; the hook does not return.
C5_ConnectBlocked ==
    (box_mode = "run" /\ LastDelivered /\ last.event = "socket.connect"
        /\ ~HostAllowListed(ConnectHost))
    => /\ status = "exited"
       /\ exit_code = ExitBlocked
       /\ last.outcome = "exited"
       /\ \E i \in 1..Len(stderr) : stderr[i] \in {"Blocked", "BLOCKED"}

\* C6: in Enforce mode every event delivered to the hook is checked, except an
\* environment read that hook.py classifies as silent or info; when
\* check_permission returned false exactly one diagnostic line was written,
\* the process has ended with exit status 78 and the hook has not returned;
\* when it returned true the hook has returned and the process runs on.
C6_EnforceDeniedTerminates ==
    (box_mode = "run" /\ last.event # "") =>
        /\ ~last.checked => (impl = "hook" /\ last.event \in EnvReadEvents
                              /\ last.outcome = "returned" /\ status = "running")
        /\ last.checked =>
             /\ last.allowed = check_permission(config, last.event, last.args)
             /\ ~last.allowed =>
                  /\ Len(stderr) = 1
                  /\ status = "exited"
                  /\ exit_code = ExitBlocked
                  /\ last.outcome = "exited"
             /\ last.allowed =>
                  /\ last.outcome = "returned"
                  /\ status = "running"
                  /\ exit_code = NoExit
                  /\ stderr = <<>>

\* a denied write outside the working directory has ended the process with 78
C6_Witness ==
    /\ box_mode = "run" /\ last.checked /\ ~last.allowed
    /\ last.event = "open" /\ last.args = E_write_out.args
    /\ status = "exited" /\ exit_code = ExitBlocked

\* the event of the last call was approved and written out by an earlier process
PersistedEarlier == \E g \in 1..(gen - 1) : <<g, last.event, last.args>> \in persisted

\* C7: an open event that was denied, approved and persisted is allowed by the
\* engine of every later process, which is constructed from the written config.
C7_PathRoundTrip ==
    (last.checked /\ last.event = "open" /\ PersistedEarlier) => last.allowed

\* an entry's number of occurrences in a category of the config file
Occ(file, key, entry) ==
    IF IsDoc(file) /\ key \in DOMAIN file.doc /\ key # "allow_pypi_requests"
    THEN Cardinality({ i \in 1..Len(file.doc[key]) : file.doc[key][i] = entry })
    ELSE 0

ListKeys(file) == IF IsDoc(file) THEN DOMAIN file.doc \ {"allow_pypi_requests"} ELSE {}

\* C8: no step makes an entry occur more often in a category of the config
\* file than before, unless the entry was not there, and then it occurs once:
\* an entry is appended only if it is not already present.
C8_NoDuplicateEntry ==
    [][\A key \in ListKeys(cfgFile') :
         \A i \in 1..Len(cfgFile'.doc[key]) :
            LET e == cfgFile'.doc[key][i] IN
            Occ(cfgFile', key, e) <= IF Occ(cfgFile, key, e) = 0 THEN 1
                                     ELSE Occ(cfgFile, key, e)]_vars

\* the same decision is in the buffer twice, the buffer has been saved, and
\* its entry is in its category once
C8_Witness ==
    /\ \E i, j \in 1..Len(decisions) : i < j /\ decisions[i] = decisions[j]
    /\ status = "exited"
    /\ \A i \in 1..Len(decisions) :
         LET t == persist_target(decisions[i]) IN
         Len(t) = 2 /\ Occ(cfgFile, t[1], t[2]) = 1

\* the operator's last answer was a denial
AnsweredDeny == box_mode = "review" /\ is_deny(last.answer) /\ last.answer # ""

\* every decision of the buffer that save_decisions has an entry for is in
\* its category of the config file
BufferOnDisk ==
    \A i \in 1..Len(decisions) :
        LET t == persist_target(decisions[i]) IN
        Len(t) = 2 => Occ(cfgFile, t[1], t[2]) >= 1

C10_EofBlocks ==
    (box_mode = "review" /\ last.answer = "EOF") =>
        /\ exit_code = ExitBlocked
        /\ \E i \in 1..Len(stderr) : stderr[i] \in {"Blocked", "BLOCKED"}
        /\ \A i \in 1..Len(stderr) : stderr[i] # "Aborted"

C12_AnswerKinds ==
    [][(box_mode = "review" /\ status = "prompting" /\ status' = "running") =>
          LET key == session_key(pending) IN
          \/ /\ session_allowed' = session_allowed
             /\ decisions' = decisions
          \/ /\ session_allowed' = session_allowed \cup {key}
             /\ key \in session_allowed'
             /\ \/ decisions' = decisions
                \/ /\ Len(decisions') = Len(decisions) + 1
                   /\ SubSeq(decisions', 1, Len(decisions)) = decisions
                   /\ decisions'[Len(decisions')].event = pending.name
                   /\ decisions'[Len(decisions')].args = pending.args]_vars

\* the event the step delivers to a review hook that keeps a session cache
DeliversCached ==
    /\ box_mode = "review" /\ impl \in {"hook", "hooks"}
    /\ nEvents' = nEvents + 1
    /\ session_key([name |-> last'.event, args |-> last'.args]) \in session_allowed

-----------------------------------------------------------------------------
(* Claims about commands, arguments, loading and hashes, checked under SpecArgs *)

\* the command string each command event of the model stands for: the raw
\* shell string, or the executable followed by the space-joined argv
ExpectedCommand ==
    [ev \in CommandEvents |->
        IF ev.name = "os.system" THEN ev.args[1].str
        ELSE IF ev.args = <<S(<<"git">>), L(<<S(<<"status">>)>>)>> THEN C_git_status
        ELSE IF ev.args = <<S(<<"git">>), L(<<S(<<"push">>), S(<<"origin">>)>>)>> THEN C_git_push
        ELSE IF ev.args = <<S(C_gitstatus), L(<<>>)>> THEN C_gitstatus
        ELSE IF ev.args = <<S(<<"rm">>), L(<<S(<<"-rf">>), S(<<"/">>)>>)>> THEN C_rm
        ELSE IF ev.args = <<S(<<"git">>)>> THEN <<"git">>
        ELSE <<"a", " ", "x">>]

\* shell-wildcard matching on the commands and patterns of the model:
\* "git *" matches "git status" and "git push origin", "[ab]x" matches "ax"
\* and not the text "[ab]x", a pattern without wildcards matches itself
GlobMatches ==
    { <<C_git_status, Pat_git>>, <<C_git_push, Pat_git>>, <<C_ax, Pat_class>>,
      <<C_rm, C_rm>> }

LastIsCommand ==
    /\ last.checked /\ last.outcome = "returned"
    /\ [name |-> last.event, args |-> last.args] \in CommandEvents

\* C18: a subprocess.Popen or os.system event is allowed exactly when its
\* command string matches some allow_system_commands pattern as a glob; with
\* the rule "git *", "git status" and "git push origin" are allowed and
\* "gitstatus" and "rm -rf /" are denied.
C18_CommandAllowedIffGlob ==
    LastIsCommand =>
        LET cmd == ExpectedCommand[[name |-> last.event, args |-> last.args]]
            pats == config.allow_system_commands
        IN /\ last.allowed <=> \E i \in 1..Len(pats) : <<cmd, pats[i].str>> \in GlobMatches
           /\ pats = <<S(Pat_git)>> =>
                /\ cmd \in {C_git_status, C_git_push} => last.allowed
                /\ cmd \in {C_gitstatus, C_rm} => ~last.allowed

\* "git push origin" built from a Popen argv was allowed by the rule "git *"
C18_Witness ==
    /\ LastIsCommand /\ last.event = "subprocess.Popen"
    /\ config.allow_system_commands = <<S(Pat_git)>>
    /\ ExpectedCommand[[name |-> last.event, args |-> last.args]] = C_git_push
    /\ last.allowed

ModeledEvents ==
    {"open", "os.putenv", "os.unsetenv", "os.getenv", "os.environ.get",
     "subprocess.Popen", "os.system", "socket.getaddrinfo", "socket.gethostbyname"}

\* the allow lists of the category of an event
CategoryLists(event) ==
    IF event = "open"
    THEN {"allow_file_reads", "allow_dir_reads", "allow_file_writes", "allow_dir_writes",
          "allow_file_changes", "allow_dir_changes"}
    ELSE IF event \in {"os.putenv", "os.unsetenv"} THEN {"allow_env_var_writes"}
    ELSE IF event \in {"os.getenv", "os.environ.get"} THEN {"allow_env_var_reads"}
    ELSE IF event \in {"subprocess.Popen", "os.system"} THEN {"allow_system_commands"}
    ELSE {"allow_domains"}

\* C14: check_permission returns true for a modeled event only if the event
\* has args to match and some allow list of its category has a rule (or the
\* PyPI exception is on, for a resolution event); an event name outside the
\* modeled set is allowed.
C14_DenyByDefault ==
    (last.checked /\ last.outcome = "returned") =>
        IF last.event \in ModeledEvents
        THEN last.allowed =>
               /\ last.args # <<>>
               /\ \/ \E key \in CategoryLists(last.event) : config[key] # <<>>
                  \/ /\ last.event \in {"socket.getaddrinfo", "socket.gethostbyname"}
                     /\ config.allow_pypi_requests
                     /\ IsStr(last.args[1]) /\ last.args[1].str \in PYPI_HOSTS
        ELSE last.event = "_verify_file_hash" \/ last.allowed

\* C15: check_permission returns a boolean, it does not raise, whatever the
\* args of a modeled event are: empty, short, or of an unexpected type.
C15_CheckNeverRaises ==
    (last.checked /\ last.event \in ModeledEvents) =>
        /\ last.outcome = "returned"
        /\ last.allowed \in BOOLEAN

\* the categories of the compiled-in default policy
DefaultCategories ==
    {"allow_file_reads", "allow_file_writes", "allow_file_changes", "allow_dir_reads",
     "allow_dir_writes", "allow_dir_changes", "allow_env_var_reads",
     "allow_env_var_writes", "allow_pypi_requests", "allow_domains",
     "allow_system_commands"}

\* C16: constructing an engine succeeds for every state of the config file;
\* the loaded config has every default category, a category of the file keeps
\* the file's value, a missing one has the default, and a file that is not a
\* parseable JSON object gives the default policy as a whole.
C16_LoadIsTotal ==
    last.event = "__init__" =>
        /\ last.outcome = "returned"
        /\ config # Raised
        /\ DefaultCategories \subseteq DOMAIN config
        /\ \A key \in DOMAIN config :
             config[key] = IF IsDoc(cfgFile) /\ key \in DOMAIN cfgFile.doc
                           THEN cfgFile.doc[key] ELSE default_config[key]
        /\ ~IsDoc(cfgFile) => config = default_config

HashCall == last.event = "_verify_file_hash"
HashPath == last.args[1]
HashPin == last.args[2]

\* C17: _verify_file_hash returns, and returns true exactly when the pinned
\* hash is "sha256:" followed by the digest of the file as it is now, the file
\* being there and readable; another scheme, a missing file and a failing
\* read give false.
C17_HashFailsClosed ==
    HashCall =>
        /\ last.outcome = "returned"
        /\ last.allowed <=>
             /\ Len(HashPin) = 2 /\ HashPin[1] = "sha256:"
             /\ HashPath \in DOMAIN files
             /\ files[HashPath] \notin {Absent, ReadFails}
             /\ files[HashPath] = HashPin[2]

\* the digest after "md5:" is the file's, and the verification failed
C17_Witness ==
    /\ HashCall /\ HashPin = <<"md5:", "h1">>
    /\ HashPath \in DOMAIN files /\ files[HashPath] = "h1"
    /\ ~last.allowed

-----------------------------------------------------------------------------
(* Claims about what save_decisions writes, checked under SpecSave *)

Saved == last.event = "save_decisions" /\ last.outcome = "returned"

OpenDecisions == { i \in 1..Len(decisions) : decisions[i].event = "open" }

\* the rule set that governs the approved access: the read set for a read,
\* the creation set for a write to a target that was not there, the
\* modification set for a write to one that was
GoverningCategory(details) ==
    IF ContainsWriteChar(details.mode.str)
    THEN IF details.is_new_file THEN "allow_file_writes" ELSE "allow_file_changes"
    ELSE "allow_file_reads"

\* C19: after save_decisions every approved file decision is in the rule set
\* that governs it.
C19_SavedIntoGoverningSet ==
    Saved =>
        \A i \in OpenDecisions :
            LET details == decisions[i].details IN
            \E j \in 1..Len(Get(cfgFile.doc, GoverningCategory(details), <<>>)) :
                EntryPathOf(cfgFile.doc[GoverningCategory(details)][j]) = details.path.str

\* the placeholder form of an absolute path: "$PWD" for the working directory
PathToVariable(path) ==
    IF StartsWith(path, WorkdirStr \o <<"/">>)
    THEN <<"$PWD">> \o SubSeq(path, Len(WorkdirStr) + 1, Len(path))
    ELSE path

FileCategories == {"allow_file_reads", "allow_file_writes", "allow_file_changes"}

\* C20: after save_decisions an approved path under the working directory is
\* in the config file as "$PWD/<rest>" and not as the absolute path.
C20_SavedAsPlaceholder ==
    Saved =>
        \A i \in OpenDecisions :
            LET path == decisions[i].details.path.str IN
            /\ \E key \in FileCategories : Occ(cfgFile, key, S(PathToVariable(path))) >= 1
            /\ PathToVariable(path) # path =>
                 \A key \in FileCategories : Occ(cfgFile, key, S(path)) = 0

\* the categories whose value is a list of entries
ListCategories == DefaultCategories \ {"allow_pypi_requests"}

\* C21: a step that rewrites a config document keeps every key of it, keys
\* the engine does not know included; a list category keeps its entries in
\* their order and may gain entries at its end, any other value is unchanged.
C21_SavePreservesDocument ==
    [][IsDoc(cfgFile) =>
         /\ IsDoc(cfgFile')
         /\ \A key \in DOMAIN cfgFile.doc :
              /\ key \in DOMAIN cfgFile'.doc
              /\ IF key \in ListCategories
                 THEN /\ Len(cfgFile'.doc[key]) >= Len(cfgFile.doc[key])
                      /\ SubSeq(cfgFile'.doc[key], 1, Len(cfgFile.doc[key])) = cfgFile.doc[key]
                 ELSE cfgFile'.doc[key] = cfgFile.doc[key]]_vars

\* a document with a key of its own and one read entry has been written back
\* with a second read entry after the first
C21_Witness ==
    /\ Saved /\ IsDoc(cfgFile)
    /\ "comment" \in DOMAIN cfgFile.doc /\ cfgFile.doc.comment = S(<<"mine">>)
    /\ Len(cfgFile.doc.allow_file_reads) >= 2
    /\ cfgFile.doc.allow_file_reads[1] = S(P_out)

-----------------------------------------------------------------------------
(* Claims about a config file that cannot be written, checked under SpecFail *)

\* the step calls save_decisions with a buffer to write and the write fails
SaveFails ==
    /\ box_mode = "review" /\ write_fails(cfgFile) /\ decisions' # <<>>
    /\ stderr' # <<>> /\ stderr'[Len(stderr')] = "Warning"
    /\ ~(stderr # <<>> /\ stderr = stderr')

\* the step answers a prompt with an approval
Approves == status = "prompting" /\ status' # "prompting" /\ ~is_deny(last'.answer)
            /\ ~is_abort(last'.answer)

\* C22: a save_decisions whose write fails warns and returns: the file is as
\* before, nothing is raised into the hook, an approving answer leaves the
\* process running with its key in the session cache and its decision in the
\* buffer, the buffer is not emptied, and an event whose key is cached still
\* returns without a prompt.
C22_WriteFailureIsWarned ==
    [][/\ SaveFails =>
            /\ cfgFile' = cfgFile
            /\ last'.outcome # "raised"
            /\ Len(decisions') >= Len(decisions)
            /\ SubSeq(decisions', 1, Len(decisions)) = decisions
            /\ session_allowed \subseteq session_allowed'
            /\ Approves =>
                 /\ status' = "running" /\ exit_code' = NoExit
                 /\ last'.outcome = "returned"
                 /\ session_key(pending) \in session_allowed'
                 /\ decisions'[Len(decisions')].event = pending.name
            /\ status' = "exited" =>
                 exit_code' \in {ExitDenied, ExitAborted, ExitSuccess}
       /\ (write_fails(cfgFile) /\ DeliversCached) =>
            /\ last'.outcome = "returned"
            /\ status' = "running"]_vars

\* after an approval whose save failed, the approved event came again and
\* returned from the hook unasked
C22_Witness ==
    /\ box_mode = "review" /\ impl = "hook" /\ write_fails(cfgFile)
    /\ Len(decisions) >= 1
    /\ last.event = decisions[1].event /\ last.args = decisions[1].args
    /\ last.outcome = "returned" /\ ~last.checked
    /\ session_key([name |-> last.event, args |-> last.args]) \in session_allowed
    /\ status = "running"

-----------------------------------------------------------------------------
(* Claims about LogOnly mode, checked under Spec *)

\* the step is a hook invocation
HookStep == nEvents' = nEvents + 1

\* the event of the completed call is a violation under the engine's policy
IsViolation == last.checked /\ ~check_permission(config, last.event, last.args)

\* C23: the hook of setup_force_hook and the hook of setup_run_hook classify
\* an event as a violation in exactly the same cases (the event passed the
\* env-read prefilter and check_permission denies it); on a violation the
\* LogOnly hook writes one log line and returns, the process keeps running,
\* and config, config file, decisions buffer and session cache are unchanged,
\* while the Enforce hook ends the process with status 78.
C23_ForceEvaluatesAsRun ==
    [][(HookStep /\ impl = "hook" /\ box_mode \in {"force", "run"}) =>
         /\ UNCHANGED <<config, cfgFile, decisions, session_allowed, persisted, in_hook>>
         /\ (last'.checked /\ ~check_permission(config, last'.event, last'.args))
              <=> (stderr' \in {<<"Violation">>, <<"Blocked">>})
         /\ last'.checked => (last'.allowed = (stderr' = <<>>))
         /\ box_mode = "force" =>
              /\ stderr' \in {<<>>, <<"Violation">>}
              /\ status' = "running" /\ exit_code' = NoExit
              /\ last'.outcome = "returned"
         /\ box_mode = "run" =>
              /\ stderr' \in {<<>>, <<"Blocked">>}
              /\ (stderr' = <<"Blocked">>) <=> (status' = "exited" /\ exit_code' = ExitBlocked)]_vars

\* LogOnly logged a violation and a later event was still delivered
C23_Witness ==
    /\ box_mode = "force" /\ impl = "hook"
    /\ nEvents >= 2
    /\ IsViolation /\ stderr = <<"Violation">>
    /\ status = "running" /\ exit_code = NoExit

\* the read allow-list of the engine's config
EnvReadList == Get(config, "allow_env_var_reads", <<>>)

LastIsEnvRead == last.checked /\ last.event \in EnvReadEvents /\ last.outcome = "returned"

\* C24: check_permission allows every os.getenv / os.environ.get event when
\* allow_env_var_reads has no entry and denies every one of them when it has
\* an entry, also the read of a variable that is on the list.
C24_EnvReadAllOrNothing ==
    LastIsEnvRead => (last.allowed <=> Len(EnvReadList) = 0)

\* the read of the very variable the list names is denied
C24_Witness ==
    /\ LastIsEnvRead /\ last.args # <<>>
    /\ \E i \in 1..Len(EnvReadList) : EnvReadList[i] = last.args[1]
    /\ ~last.allowed

-----------------------------------------------------------------------------
(* SpecGuard, SpecThreads: the hooks of hook.py step by step. One thread    *)
(* (SpecGuard) or two threads (SpecThreads) of the monitored program raise  *)
(* events; each hook invocation tests the flag, sets it, evaluates, maybe   *)
(* prompts, and clears the flag in its finally clause. Code that runs       *)
(* inside the hook raises events of its own, which re-enter the hook.       *)

MaxDeliveries == 3

E_popen_bad == [name |-> "subprocess.Popen", args |-> <<S(<<"git">>), I(5)>>]
GuardEvents == {E_read_out, E_putenv, E_connect, E_popen_bad}
GuardAnswers == {"y", "n", "EOF"}

\* a thread's position in the hook: idle (outside), testing (past the test of
\* the flag, before in_hook = True), inside (in the try block), prompting
IdleFrame == [pc |-> "idle", name |-> "", args |-> <<>>]
Frame(pc, ev) == [pc |-> pc, name |-> ev.name, args |-> ev.args]
EventOf(frame) == [name |-> frame.name, args |-> frame.args]

\* the record of a completed hook invocation: guarded when it returned at
\* "if in_hook: return", nested when the thread was inside the hook already
GCall(t, ev, checked, allowed, outcome, answer, guarded, nested) ==
    [event |-> ev.name, args |-> ev.args, checked |-> checked, allowed |-> allowed,
     outcome |-> outcome, answer |-> answer, thread |-> t, guarded |-> guarded,
     nested |-> nested]

InitThreadsOf(threads) ==
    /\ files = [p \in FilePaths |-> "h1"]
    /\ cfgFile = Missing
    /\ config = load_config(cfgFile)
    /\ box_mode \in {"run", "force", "review"} /\ impl = "hook"
    /\ last = GCall(0, NoEvent, FALSE, FALSE, "none", "", FALSE, FALSE)
    /\ decisions = <<>> /\ session_allowed = {} /\ in_hook = FALSE
    /\ status = "running" /\ exit_code = NoExit /\ stderr = <<>>
    /\ pending = [t \in threads |-> IdleFrame]
    /\ persisted = {} /\ gen = 1 /\ nEvents = 0

InitGuard == InitThreadsOf({1})
InitThreads == InitThreadsOf({1, 2})

\* a hook without try/finally: an exception leaves the flag set
finally_keeps_flag_on_raise(outcome) == outcome = "raised"

\* finally: in_hook = False
finally_in_hook(outcome) == FALSE

\* the program raises an event outside the hook: "if in_hook: return", then
\* (Interactive) "if key in session_allowed: return"
Deliver(t, ev) ==
    /\ status = "running" /\ pending[t].pc = "idle" /\ nEvents < MaxDeliveries
    /\ nEvents' = nEvents + 1
    /\ IF in_hook
       THEN /\ last' = GCall(t, ev, FALSE, FALSE, "returned", "", TRUE, FALSE)
            /\ UNCHANGED pending
       ELSE IF box_mode = "review" /\ session_hit(ev)
       THEN /\ last' = GCall(t, ev, FALSE, FALSE, "returned", "", FALSE, FALSE)
            /\ UNCHANGED pending
       ELSE /\ pending' = [pending EXCEPT ![t] = Frame("testing", ev)]
            /\ UNCHANGED last
    /\ UNCHANGED <<files, cfgFile, config, decisions, session_allowed, in_hook, box_mode,
                   impl, status, exit_code, stderr, persisted, gen>>

\* in_hook = True
SetFlag(t) ==
    /\ status = "running" /\ pending[t].pc = "testing"
    /\ in_hook' = TRUE
    /\ pending' = [pending EXCEPT ![t].pc = "inside"]
    /\ UNCHANGED <<files, cfgFile, config, decisions, session_allowed, box_mode, impl,
                   status, exit_code, stderr, last, persisted, gen, nEvents>>

\* code running inside the hook (path resolution, the prompt's input) raises
\* an event and the hook is entered again on the same thread. With the flag
\* set it returns at once; with the flag cleared under it the event is
\* evaluated inside the running evaluation, where this model stops.
NestedDeliver(t, ev) ==
    /\ status = "running" /\ pending[t].pc \in {"inside", "prompting"}
    /\ nEvents < MaxDeliveries
    /\ nEvents' = nEvents + 1
    /\ IF in_hook
       THEN /\ last' = GCall(t, ev, FALSE, FALSE, "returned", "", TRUE, TRUE)
            /\ UNCHANGED status
       ELSE /\ last' = GCall(t, ev, TRUE,
                             ~system_command_raises(ev.name, ev.args)
                                /\ check_permission(config, ev.name, ev.args),
                             "reentered", "", FALSE, TRUE)
            /\ status' = "reentered"
    /\ UNCHANGED <<files, cfgFile, config, decisions, session_allowed, in_hook, box_mode,
                   impl, exit_code, stderr, pending, persisted, gen>>

\* the try block up to the prompt: check_permission, on_violation
Evaluate(t) ==
    /\ status = "running" /\ pending[t].pc = "inside"
    /\ LET ev == EventOf(pending[t])
           leave(checked, allowed, outcome, lines) ==
               /\ last' = GCall(t, ev, checked, allowed, outcome, "", FALSE, FALSE)
               /\ in_hook' = finally_in_hook(outcome)
               /\ pending' = [pending EXCEPT ![t] = IdleFrame]
               /\ stderr' = lines
               /\ UNCHANGED <<status, exit_code>>
       IN IF system_command_raises(ev.name, ev.args)
          THEN leave(TRUE, FALSE, "raised", <<>>)
          ELSE IF check_permission(config, ev.name, ev.args)
          THEN leave(TRUE, TRUE, "returned", <<>>)
          ELSE IF box_mode = "force"
          THEN leave(TRUE, FALSE, "returned", <<on_violation_force.line>>)
          ELSE IF box_mode = "run"
          THEN /\ last' = GCall(t, ev, TRUE, FALSE, "exited", "", FALSE, FALSE)
               /\ status' = on_violation_run.status
               /\ exit_code' = on_violation_run.exit_code
               /\ stderr' = <<on_violation_run.line>>
               /\ UNCHANGED <<in_hook, pending>>
          ELSE /\ pending' = [pending EXCEPT ![t].pc = "prompting"]
               /\ stderr' = <<"Prompt">>
               /\ UNCHANGED <<last, in_hook, status, exit_code>>
    /\ UNCHANGED <<files, cfgFile, config, decisions, session_allowed, box_mode, impl,
                   persisted, gen, nEvents>>

\* the operator's answer to the prompt of thread t
Reply(t, resp) ==
    /\ status = "running" /\ pending[t].pc = "prompting"
    /\ LET ev == EventOf(pending[t]) IN
       IF is_abort(resp) \/ is_deny(resp)
       THEN /\ last' = GCall(t, ev, TRUE, FALSE, "exited", resp, FALSE, FALSE)
            /\ cfgFile' = flush_on_deny(cfgFile, decisions)
            /\ status' = "exited"
            /\ exit_code' = IF is_abort(resp) THEN ExitAborted ELSE ExitDenied
            /\ stderr' = <<IF is_abort(resp) THEN "Aborted" ELSE "Denied">>
            /\ UNCHANGED <<decisions, session_allowed, in_hook, pending>>
       ELSE LET decs == Append(decisions,
                               decision_record(ev, extract_decision_details(ev.name, ev.args)))
            IN /\ session_allowed' = session_allowed \cup {session_key(ev)}
               /\ decisions' = decs
               /\ cfgFile' = save_decisions(cfgFile, decs)
               /\ last' = GCall(t, ev, TRUE, FALSE, "returned", resp, FALSE, FALSE)
               /\ in_hook' = finally_in_hook("returned")
               /\ pending' = [pending EXCEPT ![t] = IdleFrame]
               /\ stderr' = <<>>
               /\ UNCHANGED <<status, exit_code>>
    /\ UNCHANGED <<files, config, box_mode, impl, persisted, gen, nEvents>>

NextGuard ==
    \/ \E t \in DOMAIN pending, ev \in GuardEvents : Deliver(t, ev)
    \/ \E t \in DOMAIN pending : SetFlag(t)
    \/ \E t \in DOMAIN pending, ev \in GuardEvents : NestedDeliver(t, ev)
    \/ \E t \in DOMAIN pending : Evaluate(t)
    \/ \E t \in DOMAIN pending, resp \in GuardAnswers : Reply(t, resp)

SpecGuard == InitGuard /\ [][NextGuard]_vars
SpecThreads == InitThreads /\ [][NextGuard]_vars

\* the threads that are in the try block of the hook
InsideHook == { t \in DOMAIN pending : pending[t].pc \in {"inside", "prompting"} }

\* the step delivers an event to the hook
Delivery == nEvents' = nEvents + 1

\* C26: the flag is set exactly while the outermost invocation is in its try
\* block (evaluating or prompting); an event delivered while the flag is set
\* returns at once, unchecked and unprompted, and changes neither session
\* cache nor decisions buffer nor the flag; every return or exception of the
\* outermost invocation leaves the flag cleared, and an event delivered with
\* no invocation running is never turned away by the guard.
C26_RecursionGuard ==
    [][/\ status' = "running" => (in_hook' <=> InsideHook' # {})
       /\ (Delivery /\ in_hook) =>
            /\ last'.guarded /\ last'.nested /\ ~last'.checked
            /\ last'.outcome = "returned"
            /\ UNCHANGED <<session_allowed, decisions, cfgFile, in_hook, status,
                           exit_code, stderr, pending>>
       /\ (InsideHook # {} /\ InsideHook' = {} /\ status' = "running") =>
            /\ last'.outcome \in {"returned", "raised"}
            /\ ~in_hook'
       /\ (Delivery /\ InsideHook = {}) =>
            /\ ~in_hook
            /\ \E t \in DOMAIN pending : pending'[t].pc = "testing" \/ ~last'.guarded]_vars

\* after an invocation that ended with an exception, the next event has
\* entered the hook and is being evaluated
C26_Witness ==
    /\ DOMAIN pending = {1}
    /\ last.outcome = "raised" /\ nEvents >= 2
    /\ pending[1].pc = "inside" /\ in_hook

\* C27: no event of a thread that is outside the hook is returned unevaluated
\* because the flag is set, and at most one thread at a time is in the hook's
\* try block, where the session cache and the decisions buffer are used.
C27_ThreadsAreSerialised ==
    /\ last.guarded => last.nested
    /\ Cardinality(InsideHook) <= 1
    /\ status # "reentered"

-----------------------------------------------------------------------------
(* SpecShared: two processes, each with its own engine and decisions        *)
(* buffer, on one config file. A save_decisions call reads the file, merges, *)
(* and writes it back; the two halves are separate steps of a process.      *)

MaxShared == 1

SharedEvents == {E_system, E_putenv, E_read_in}

\* a process: running, reading done (existing holds what it read), exited
Proc(pc, existing, exiting) == [pc |-> pc, existing |-> existing, exiting |-> exiting]
RunningProc == Proc("running", NoConfig, FALSE)

InitShared ==
    /\ files = [p \in FilePaths |-> "h1"]
    /\ cfgFile \in {Missing, Doc([comment |-> S(<<"mine">>)])}
    /\ config = load_config(cfgFile)
    /\ box_mode = "review" /\ impl = "hook"
    /\ last = NoCall
    /\ decisions = [p \in {1, 2} |-> <<>>]
    /\ pending = [p \in {1, 2} |-> RunningProc]
    /\ session_allowed = {} /\ in_hook = FALSE
    /\ status = "running" /\ exit_code = NoExit /\ stderr = <<>>
    /\ persisted = {} /\ gen = 1 /\ nEvents = 0

\* process p: the operator approves ev; record_decision, then save_decisions
\* opens the file and reads it
ApproveAndRead(p, ev) ==
    /\ pending[p].pc = "running" /\ Len(decisions[p]) < MaxShared
    /\ LET decs == Append(decisions[p],
                          decision_record(ev, extract_decision_details(ev.name, ev.args)))
       IN /\ decisions' = [decisions EXCEPT ![p] = decs]
          /\ pending' = [pending EXCEPT ![p] = Proc("merging", read_existing(cfgFile), FALSE)]
    /\ UNCHANGED <<files, cfgFile, config, session_allowed, in_hook, box_mode, impl,
                   status, exit_code, stderr, last, persisted, gen, nEvents>>

\* process p exits normally: save_on_exit calls save_decisions, which returns
\* at once on an empty buffer and reads the file otherwise
ExitAndRead(p) ==
    /\ pending[p].pc = "running"
    /\ pending' = [pending EXCEPT ![p] =
                     IF decisions[p] = <<>> THEN Proc("exited", NoConfig, TRUE)
                     ELSE Proc("merging", read_existing(cfgFile), TRUE)]
    /\ UNCHANGED <<files, cfgFile, config, decisions, session_allowed, in_hook, box_mode,
                   impl, status, exit_code, stderr, last, persisted, gen, nEvents>>

\* process p: save_decisions merges its buffer into what it read and writes
\* the file
MergeAndWrite(p) ==
    /\ pending[p].pc = "merging"
    /\ cfgFile' = write_merged(pending[p].existing, decisions[p])
    /\ pending' = [pending EXCEPT ![p] =
                     IF pending[p].exiting THEN Proc("exited", NoConfig, TRUE)
                     ELSE RunningProc]
    /\ UNCHANGED <<files, config, decisions, session_allowed, in_hook, box_mode, impl,
                   status, exit_code, stderr, last, persisted, gen, nEvents>>

NextShared ==
    \/ \E p \in {1, 2}, ev \in SharedEvents : ApproveAndRead(p, ev)
    \/ \E p \in {1, 2} : ExitAndRead(p)
    \/ \E p \in {1, 2} : MergeAndWrite(p)

SpecShared == InitShared /\ [][NextShared]_vars

\* C28: once both processes have exited normally, the config file has the
\* entry of every approval either of them recorded.
C28_NoLostApproval ==
    (\A p \in {1, 2} : pending[p].pc = "exited") =>
        \A p \in {1, 2} : \A i \in 1..Len(decisions[p]) :
            LET t == persist_target(decisions[p][i]) IN
            Len(t) = 2 => Occ(cfgFile, t[1], t[2]) >= 1

-----------------------------------------------------------------------------
(* SpecRound: an engine checks events, records approvals of denied events   *)
(* and saves them; then a fresh engine is constructed from the written file *)
(* and checks events again.                                                 *)

E_cmd_class == [name |-> "os.system", args |-> <<S(Pat_class)>>]
E_popen_git == [name |-> "subprocess.Popen",
                args |-> <<S(<<"git">>), L(<<S(<<"git">>), S(<<"status">>)>>)>>]
E_dns_upper == [name |-> "socket.gethostbyname", args |-> <<S(H_upper)>>]
E_unsetenv == [name |-> "os.unsetenv", args |-> <<S(<<"K">>)>>]
RoundEvents == {E_cmd_class, E_popen_git, E_dns, E_dns_upper, E_putenv, E_unsetenv}

InitRound ==
    /\ files = [p \in FilePaths |-> "h1"]
    /\ cfgFile \in {Missing, Doc([allow_system_commands |-> <<S(C_rm)>>])}
    /\ config = load_config(cfgFile)
    /\ box_mode = "none" /\ impl = "engine"
    /\ last = NoCall
    /\ HookIdle

\* the policy denies ev, the operator approves it: engine.record_decision
ApproveDenied(ev) ==
    /\ ~system_command_raises(ev.name, ev.args)
    /\ ~check_permission(config, ev.name, ev.args)
    /\ RecordDecision(ev)

\* a later process: BoxEngine(config_path) on the file as it is now
FreshEngine ==
    /\ impl = "engine" /\ gen < MaxGen
    /\ config' = load_config(cfgFile)
    /\ decisions' = <<>>
    /\ gen' = gen + 1
    /\ last' = [NoCall EXCEPT !.event = "__init__", !.outcome = "returned"]
    /\ UNCHANGED <<files, cfgFile, session_allowed, in_hook, box_mode, impl, status,
                   exit_code, stderr, pending, persisted, nEvents>>

NextRound ==
    \/ \E ev \in RoundEvents : Check(ev)
    \/ \E ev \in RoundEvents : ApproveDenied(ev)
    \/ SaveDecisions
    \/ FreshEngine

SpecRound == InitRound /\ [][NextRound]_vars

NonPathEvents == {"subprocess.Popen", "os.system", "socket.getaddrinfo",
                  "socket.gethostbyname", "os.putenv", "os.unsetenv"}

\* C29: a command, DNS or environment-write event that was denied, approved
\* and persisted by an earlier engine is allowed by a fresh engine loaded from
\* the written config, whatever the command string or host name.
C29_NonPathRoundTrip ==
    (last.checked /\ last.event \in NonPathEvents /\ PersistedEarlier) => last.allowed

\* C30: check_permission, record_decision and save_decisions leave the
\* engine's config as it was loaded; check_permission also leaves buffer and
\* file alone; record_decision leaves the file alone and appends exactly one
\* record to the buffer; save_decisions leaves the buffer as it is.
C30_EngineFrame ==
    [][gen' = gen =>
         /\ config' = config
         /\ last'.checked => UNCHANGED <<decisions, cfgFile>>
         /\ last'.outcome = "recorded" =>
              /\ cfgFile' = cfgFile
              /\ Len(decisions') = Len(decisions) + 1
              /\ SubSeq(decisions', 1, Len(decisions)) = decisions
              /\ decisions'[Len(decisions')].event = last'.event
         /\ last'.event = "save_decisions" => decisions' = decisions]_vars

\* save_decisions has written approvals into the file; the engine still
\* holds them in its buffer and still runs on the config it loaded
C30_Witness ==
    /\ impl = "engine" /\ last.event = "save_decisions"
    /\ decisions # <<>> /\ BufferOnDisk
    /\ config # load_config(cfgFile)

====
